---- MODULE Spec2Model ----
(***************************************************************************)
(* Model of the Obsidian plugin "Insert completed Todoist tasks".          *)
(*                                                                         *)
(* The repository holds two generations of the plugin source:              *)
(*   src/unnamed/part_000  requests /api/v1/projects and                   *)
(*                         /api/v1/tasks/completed/by_completion_date      *)
(*                         with since/until bounds and renders every item  *)
(*                         of the response;                                *)
(*   src/main.ts           requests the Sync v9 project list and the       *)
(*                         activity log, and filters the events locally.   *)
(* The variable build selects which of the two is running.                 *)
(*                                                                         *)
(* Strings that the program compares or concatenates (project ids and      *)
(* names, group headings) are sequences of one-character strings.          *)
(* Instants are integers counting ticks since the epoch, TicksPerDay       *)
(* ticks to a day; the observer's zone is utcOffset ticks east of UTC.     *)
(***************************************************************************)
EXTENDS Integers, Sequences, FiniteSets, TLC

VARIABLES build, settings, now, utcOffset, run, editor

vars == <<build, settings, now, utcOffset, run, editor>>

(***************************************************************************)
(* Bounds of the model.                                                    *)
(***************************************************************************)
TicksPerDay == 2
MaxTicks == 1
MaxItems == 2
MaxFormatItems == 3

Runs == {"r1", "r2"}

(***************************************************************************)
(* JavaScript values.                                                      *)
(***************************************************************************)
\* null: a project key that is no string (a string is a sequence of
\* one-character strings, so this value is none).
null == <<"null">>

\* undefined: what Map.get gives for an absent key.
undefined == <<"undefined">>

\* A string-or-null value that `if (x)`, `x || y` and `!x` treat as false.
Falsy(x) == x = null \/ x = undefined \/ x = <<>>

\* a ?? b
Coalesce(a, b) == IF a = null \/ a = undefined THEN b ELSE a

\* a || b
OrElse(a, b) == IF Falsy(a) THEN b ELSE a

(***************************************************************************)
(* String.prototype.localeCompare under the default (root) collation:      *)
(* punctuation before digits before letters, letters compared without      *)
(* regard to case first; strings equal that way are ordered by case, a     *)
(* lower-case letter before its capital.                                   *)
(***************************************************************************)
Punctuation == <<" ", ":", "(", ")">>
Digits == <<"0", "1", "2", "3", "4", "5", "6", "7", "8", "9">>
LowerCase == <<"a", "b", "c", "d", "e", "f", "g", "h", "i", "j", "k", "l", "m",
               "n", "o", "p", "q", "r", "s", "t", "u", "v", "w", "x", "y", "z">>
UpperCase == <<"A", "B", "C", "D", "E", "F", "G", "H", "I", "J", "K", "L", "M",
               "N", "O", "P", "Q", "R", "S", "T", "U", "V", "W", "X", "Y", "Z">>

IndexIn(c, s) == CHOOSE i \in 1..Len(s) : s[i] = c

Occurs(c, s) == \E i \in 1..Len(s) : s[i] = c

IsUpper(c) == Occurs(c, UpperCase)

\* The primary collation weight of a character: its case is ignored.
PrimaryWeight(c) ==
    IF Occurs(c, Punctuation) THEN IndexIn(c, Punctuation)
    ELSE IF Occurs(c, Digits) THEN Len(Punctuation) + IndexIn(c, Digits)
    ELSE IF Occurs(c, LowerCase)
         THEN Len(Punctuation) + Len(Digits) + IndexIn(c, LowerCase)
    ELSE Len(Punctuation) + Len(Digits) + IndexIn(c, UpperCase)

\* The tertiary weight: lower case before upper case.
CaseWeight(c) == IF IsUpper(c) THEN 1 ELSE 0

RECURSIVE CompareBy(_, _, _, _)
CompareBy(W(_), a, b, i) ==
    IF i > Len(a) /\ i > Len(b) THEN 0
    ELSE IF i > Len(a) THEN -1
    ELSE IF i > Len(b) THEN 1
    ELSE IF W(a[i]) < W(b[i]) THEN -1
    ELSE IF W(a[i]) > W(b[i]) THEN 1
    ELSE CompareBy(W, a, b, i + 1)

\* Comparison without regard to case (localeCompare at base sensitivity).
CaseInsensitiveCompare(a, b) == CompareBy(PrimaryWeight, a, b, 1)

localeCompare(a, b) ==
    IF CaseInsensitiveCompare(a, b) # 0 THEN CaseInsensitiveCompare(a, b)
    ELSE CompareBy(CaseWeight, a, b, 1)

(***************************************************************************)
(* moment: instants, calendar days and the observer's time zone.           *)
(***************************************************************************)
\* The calendar day holding instant t in a zone off ticks east of UTC.
DayOf(t, off) == (t + off) \div TicksPerDay

\* moment(...).startOf('day') and .endOf('day') in that zone, as instants.
startOfDay(t, off) == DayOf(t, off) * TicksPerDay - off
endOfDay(t, off) == startOfDay(t, off) + TicksPerDay - 1

\* a.isSame(b, 'day'): b's instant lies within a's day, a's day being taken
\* in a's own zone (aoff; 0 for a moment made by moment.utc).
isSameDay(a, aoff, b) == startOfDay(a, aoff) <= b /\ b <= endOfDay(a, aoff)

\* The text before the day of the month in every date the model names:
\* day d of the model is 2024-05-0d.
DatePrefix == <<"2", "0", "2", "4", "-", "0", "5", "-", "0">>

\* m.format('YYYY-MM-DD') of a local moment: the text names the local day.
formatDate(t, off) == DatePrefix \o <<Digits[DayOf(t, off) + 1]>>

\* moment(text, 'YYYY-MM-DD', true).isValid(): the whole text is a date.
isValidDate(text) ==
    /\ Len(text) = Len(DatePrefix) + 1
    /\ SubSeq(text, 1, Len(DatePrefix)) = DatePrefix
    /\ Occurs(text[Len(text)], Digits)
    /\ text[Len(text)] # "0"

\* moment(text, 'YYYY-MM-DD', true) of a valid text: local midnight of the
\* day the text names.
parseDate(text, off) ==
    (IndexIn(text[Len(text)], Digits) - 1) * TicksPerDay - off

(***************************************************************************)
(* Grouping, ordering and rendering (fetchAndFormatTasksForDate, steps 3   *)
(* and 4).  A task is [id, project_id, content, completed_at]; in          *)
(* src/main.ts the same fields are an activity event's object_id,          *)
(* parent_project_id, extra_data.content and event_date.                   *)
(***************************************************************************)
\* An event without event_date.
noEventDate == -1

\* const projectId = task.project_id || null
projectKey(task) == OrElse(task.project_id, null)

\* The keys of tasksByProject, in the order Map keeps them: first insertion.
RECURSIVE groupKeys(_)
groupKeys(items) ==
    IF items = <<>> THEN <<>>
    ELSE LET front == groupKeys(SubSeq(items, 1, Len(items) - 1))
             k == projectKey(items[Len(items)])
         IN IF Occurs(k, front) THEN front ELSE Append(front, k)

\* A group that keeps only the task that opened it.
groupTasksFirst(items, k) ==
    <<items[CHOOSE i \in 1..Len(items) :
              /\ projectKey(items[i]) = k
              /\ \A j \in 1..(i - 1) : projectKey(items[j]) # k]>>

\* tasksByProject.get(projectId): the group's tasks, in arrival order.
groupTasks(items, k) == SelectSeq(items, LAMBDA t : projectKey(t) = k)

\* projects.get(id)
mapGet(projects, id) ==
    IF id \in DOMAIN projects THEN projects[id] ELSE undefined

\* nameA / nameB of the sort callback.
sortName(a, projects) ==
    IF ~Falsy(a) THEN Coalesce(mapGet(projects, a), <<"U", "n", "k", "n", "o", "w", "n", " ", "P", "r", "o", "j", "e", "c", "t">>)
    ELSE <<"N", "o", " ", "P", "r", "o", "j", "e", "c", "t">>

\* The sort callback.
compareProjectIds(a, b, projects) ==
    IF a = null THEN 1
    ELSE IF b = null THEN -1
    ELSE localeCompare(sortName(a, projects), sortName(b, projects))

\* Array.prototype.sort is stable: x goes before the first element it
\* compares less than, after everything else.
RECURSIVE insertSorted(_, _, _)
insertSorted(sorted, x, projects) ==
    IF sorted = <<>> THEN <<x>>
    ELSE IF compareProjectIds(x, Head(sorted), projects) < 0 THEN <<x>> \o sorted
    ELSE <<Head(sorted)>> \o insertSorted(Tail(sorted), x, projects)

RECURSIVE sortKeys(_, _)
sortKeys(keys, projects) ==
    IF keys = <<>> THEN <<>>
    ELSE insertSorted(sortKeys(SubSeq(keys, 1, Len(keys) - 1), projects),
                      keys[Len(keys)], projects)

sortedProjectIds(items, projects) == sortKeys(groupKeys(items), projects)

\* The text of a group's heading.
groupHeading(projectId, projects) ==
    LET projectName == IF ~Falsy(projectId) THEN mapGet(projects, projectId) ELSE null
    IN IF ~Falsy(projectName) THEN projectName
       ELSE IF projectId = null THEN <<"N", "o", " ", "P", "r", "o", "j", "e", "c", "t">>
       ELSE <<"U", "n", "k", "n", "o", "w", "n", " ", "P", "r", "o", "j", "e", "c", "t", " ", "(", "I", "D", ":", " ">>
            \o projectId \o <<")">>

\* One list item.
taskLine(task) ==
    <<"- [", OrElse(task.content, <<"T", "a", "s", "k", " ", "I", "D", " ">> \o task.id),
      "](https://todoist.com/showTask?id=", task.id, ")">>

\* One group: its heading, its items, a blank line.
groupLines(items, k, projects) ==
    <<<<"### ", groupHeading(k, projects)>>>>
    \o [i \in 1..Len(groupTasks(items, k)) |-> taskLine(groupTasks(items, k)[i])]
    \o <<<<"">>>>

RECURSIVE groupsLines(_, _, _)
groupsLines(items, keys, projects) ==
    IF keys = <<>> THEN <<>>
    ELSE groupLines(items, Head(keys), projects)
         \o groupsLines(items, Tail(keys), projects)

\* Today or the date, as the heading and the notices show it.
friendlyDate(targetMoment, clock, off, todayText) ==
    IF isSameDay(targetMoment, off, clock) THEN todayText
    ELSE formatDate(targetMoment, off)

\* A heading whose blank line is part of the text "Today" only.
renderMarkdownTodayBlank(items, projects, targetMoment, clock, off) ==
    <<<<"## Tasks Completed ",
        friendlyDate(targetMoment, clock, off, <<"T", "o", "d", "a", "y">>)>>>>
    \o (IF isSameDay(targetMoment, off, clock) THEN <<<<"">>>> ELSE <<>>)
    \o groupsLines(items, sortedProjectIds(items, projects), projects)

\* markdownOutput, as its lines.
renderMarkdown(items, projects, targetMoment, clock, off) ==
    <<<<"## Tasks Completed ",
        friendlyDate(targetMoment, clock, off, <<"T", "o", "d", "a", "y">>)>>,
      <<"">>>>
    \o groupsLines(items, sortedProjectIds(items, projects), projects)

(***************************************************************************)
(* Errors and notices.  A message is a tuple of its parts.                 *)
(***************************************************************************)
tokenNotSetError == <<"Todoist API token is not set.">>

apiError(api, response) ==
    <<"Todoist ", api, " API error: ", response.status, " - ", response.text>>

\* The catch block of fetchProjectData.
failedToFetchProjectData(message) == <<"Failed to fetch project data: ", message>>

invalidStructureError(b) ==
    IF b = "part_000"
    THEN <<"Invalid response structure from Todoist completed tasks API">>
    ELSE <<"Invalid response structure from Todoist Activity API">>

\* The name the project request's error message gives its API.
projectsApi(b) == IF b = "part_000" THEN "Get Projects" ELSE "Sync"

tokenNotSetNotice ==
    <<"Todoist API token is not set. Please configure it in the plugin settings.">>

fetchingNotice(dateSource) ==
    <<"Fetching Todoist tasks completed for ", dateSource, "...">>

projectNotice(project) == <<"Project {project.name} as color ", project.color>>

noTasksNotice(friendly) == <<"No tasks completed on ", friendly, " found in Todoist.">>

insertedNotice(n, targetDateString) ==
    <<"Inserted ", n, " tasks completed on ", targetDateString, ".">>

errorNotice(message) == <<"Error: ", message>>

(***************************************************************************)
(* The remote service's answers.  list is the response's results /         *)
(* projects / items / events array (hasList: present); rest holds the      *)
(* matching records the service has beyond this page: next_cursor is       *)
(* non-null exactly when rest is not empty.                                *)
(***************************************************************************)
noResponse ==
    [kind |-> "none", status |-> 0, text |-> "", cause |-> "",
     isObject |-> FALSE, hasList |-> FALSE, list |-> <<>>, rest |-> <<>>]

transportFailure ==
    [noResponse EXCEPT !.kind = "throw", !.cause = "net::ERR_CONNECTION_REFUSED"]

serverError ==
    [noResponse EXCEPT !.kind = "http", !.status = 500, !.text = "Internal Server Error"]

okResponse(isObject, hasList, list, rest) ==
    [noResponse EXCEPT !.kind = "http", !.status = 200, !.text = "{...}",
                       !.isObject = isObject, !.hasList = hasList,
                       !.list = list, !.rest = rest]

next_cursor(response) == IF response.rest = <<>> THEN null ELSE <<"c", "2">>

\* Sequences over S of length at most n.
RECURSIVE SeqsUpTo(_, _)
SeqsUpTo(S, n) ==
    IF n = 0 THEN {<<>>}
    ELSE SeqsUpTo(S, n - 1)
         \cup {Append(q, x) : q \in {q \in SeqsUpTo(S, n - 1) : Len(q) = n - 1}, x \in S}

Work == [id |-> <<"1">>, name |-> <<"W", "o", "r", "k">>, color |-> "red"]
Home == [id |-> <<"2">>, name |-> <<"H", "o", "m", "e">>, color |-> "blue"]

\* The first instant of the model's runs: the last tick of day 2, UTC.
FirstInstant == 2 * TicksPerDay + TicksPerDay - 1

WriteSpec ==
    [id |-> <<"a">>, project_id |-> <<"1">>,
     content |-> <<"W", "r", "i", "t", "e">>, completed_at |-> TicksPerDay]
Untitled ==
    [id |-> <<"b">>, project_id |-> null, content |-> <<>>,
     completed_at |-> FirstInstant]

\* An activity event that carries no event_date.
Undated ==
    [id |-> <<"u">>, project_id |-> <<"1">>, content |-> <<"P", "a", "y">>,
     completed_at |-> noEventDate]

\* The answers to the project request.  The Sync API of src/main.ts lists
\* every project in one answer; the v1 API of part_000 pages.
ProjectResponses(b) ==
    {transportFailure, serverError, okResponse(FALSE, FALSE, <<>>, <<>>),
     okResponse(TRUE, FALSE, <<>>, <<>>)}
    \cup {okResponse(TRUE, TRUE, l, r) :
            l \in {<<>>, <<Work>>},
            r \in IF b = "part_000" THEN {<<>>, <<Home>>} ELSE {<<>>}}

\* The answers to the completed-task request: a page of at most n records
\* of pool, with or without more records behind it.
TaskResponses(pool, n) ==
    {transportFailure, serverError, okResponse(FALSE, FALSE, <<>>, <<>>),
     okResponse(TRUE, FALSE, <<>>, <<>>)}
    \cup {okResponse(TRUE, TRUE, l, r) :
            l \in SeqsUpTo(pool, n), r \in {<<>>, <<WriteSpec>>}}

\* The answers two overlapping runs are given.
ConcurrentProjectResponses ==
    {serverError, okResponse(TRUE, TRUE, <<>>, <<>>),
     okResponse(TRUE, TRUE, <<Work>>, <<>>)}

ConcurrentTaskResponses ==
    {transportFailure, okResponse(TRUE, TRUE, <<>>, <<>>),
     okResponse(TRUE, TRUE, <<WriteSpec>>, <<>>),
     okResponse(TRUE, TRUE, <<Untitled>>, <<>>)}

\* view.file.basename, or null without an active file.
Basenames == {null, <<"n", "o", "t", "e", "s">>, DatePrefix \o <<"1">>}

\* What the user may leave in the token field of the settings tab.
Tokens == {<<>>, <<" ">>, <<"t", "o", "k">>, <<" ", "t", "o", "k", " ">>}

\* String.prototype.trim
RECURSIVE trim(_)
trim(text) ==
    IF text = <<>> THEN text
    ELSE IF Head(text) = " " THEN trim(Tail(text))
    ELSE IF text[Len(text)] = " " THEN trim(SubSeq(text, 1, Len(text) - 1))
    ELSE text

(***************************************************************************)
(* One run of the command.                                                 *)
(***************************************************************************)
idleRun ==
    [pc |-> "idle", entry |-> "none", tokenAtStart |-> <<>>,
     targetDate |-> 0, projects |-> <<>>, returned |-> FALSE,
     markdownOutput |-> <<>>, error |-> <<>>, notices |-> <<>>,
     requests |-> <<>>, replaced |-> <<>>,
     projectsResponse |-> noResponse, tasksResponse |-> noResponse]

\* A catch block that also writes into the note.
throwErrorAndInsert(rn, message) ==
    [rn EXCEPT !.pc = "done", !.error = message,
               !.notices = IF rn.entry = "view"
                           THEN Append(rn.notices, errorNotice(message))
                           ELSE rn.notices,
               !.replaced = IF rn.entry = "view"
                            THEN Append(rn.replaced, <<>>) ELSE rn.replaced]

\* A throw leaving fetchAndFormatTasksForDate or fetchProjectData: the
\* command's catch block shows it; a direct caller receives it.
throwError(rn, message) ==
    [rn EXCEPT !.pc = "done", !.error = message,
               !.notices = IF rn.entry = "view"
                           THEN Append(rn.notices, errorNotice(message))
                           ELSE rn.notices]

\* requestUrl({url, headers: Authorization}) and the await.
requestProjects(rn, token) ==
    [rn EXCEPT !.pc = "awaitProjects",
               !.requests = Append(rn.requests,
                   [url |-> "projects", token |-> token, since |-> 0, until |-> 0])]

\* fetchProjectData without its token check.
beginFetchProjectDataUnchecked(rn, token) == requestProjects(rn, token)

\* fetchProjectData up to its await.
beginFetchProjectData(rn, token) ==
    IF Falsy(token) THEN throwError(rn, tokenNotSetError)
    ELSE requestProjects(rn, token)

\* fetchAndFormatTasksForDate up to its first await.
beginFetchAndFormat(rn, token) ==
    IF Falsy(token) THEN throwError(rn, tokenNotSetError)
    ELSE beginFetchProjectData(rn, token)

\* projectsMap after results.forEach(project => projectsMap.set(id, name)):
\* a later entry with the same id replaces an earlier one.
projectsMap(results) ==
    [id \in {results[i].id : i \in 1..Len(results)} |->
        results[CHOOSE i \in 1..Len(results) :
                  /\ results[i].id = id
                  /\ \A j \in (i + 1)..Len(results) : results[j].id # id].name]

\* The notices results.forEach raises (part_000 only).
projectNotices(b, results) ==
    IF b = "part_000" THEN [i \in 1..Len(results) |-> projectNotice(results[i])]
    ELSE <<>>

\* The request for the day's completed tasks, and the await.  part_000
\* bounds it by the local day; src/main.ts asks for the latest events.
requestTasks(rn, b, token, off) ==
    [rn EXCEPT !.pc = "awaitTasks",
               !.requests = Append(rn.requests,
                   [url |-> "tasks", token |-> token,
                    since |-> IF b = "part_000" THEN startOfDay(rn.targetDate, off) ELSE 0,
                    until |-> IF b = "part_000" THEN endOfDay(rn.targetDate, off) ELSE 0])]

\* fetchProjectData from its await to its end, and, unless it was called
\* directly, fetchAndFormatTasksForDate up to its second await.
afterProjectsResponse(rn, response, b, token, off) ==
    LET got == [rn EXCEPT !.projectsResponse = response]
        results == IF response.isObject /\ response.hasList
                   THEN response.list ELSE <<>>
        mapped == [got EXCEPT !.projects = projectsMap(results),
                              !.notices = rn.notices \o projectNotices(b, results)]
    IN IF response.kind = "throw"
       THEN throwError(got, failedToFetchProjectData(<<response.cause>>))
       ELSE IF response.status # 200
       THEN throwError(got, failedToFetchProjectData(apiError(projectsApi(b), response)))
       ELSE IF rn.entry = "projects"
       THEN [mapped EXCEPT !.pc = "done", !.returned = TRUE]
       ELSE requestTasks(mapped, b, token, off)

\* Filter events that occurred on the targetDate (src/main.ts); part_000
\* takes the response's items as they are.
completedOnDateEvents(b, events, targetMoment) ==
    IF b = "part_000" THEN events
    ELSE SelectSeq(events, LAMBDA e :
            /\ e.completed_at # noEventDate
            /\ isSameDay(e.completed_at, 0, targetMoment))

\* replaceSelection(markdownOutput) once fetchAndFormatTasksForDate returns
\* to the command.
returnMarkdown(rn, lines, notice) ==
    [rn EXCEPT !.pc = "done", !.returned = TRUE, !.markdownOutput = lines,
               !.notices = Append(rn.notices, notice),
               !.replaced = IF rn.entry = "view"
                            THEN Append(rn.replaced, lines) ELSE rn.replaced]

\* An empty day rendered as the heading alone.
noTasksFoundHeading(rn, clock, off) ==
    returnMarkdown(rn,
        <<<<"## Tasks Completed ",
            friendlyDate(rn.targetDate, clock, off, <<"T", "o", "d", "a", "y">>)>>,
          <<"">>>>,
        noTasksNotice(friendlyDate(rn.targetDate, clock, off,
                                   <<"t", "o", "d", "a", "y">>)))

\* if (items.length === 0): the notice, and the empty string.
noTasksFound(rn, clock, off) ==
    returnMarkdown(rn, <<>>,
        noTasksNotice(friendlyDate(rn.targetDate, clock, off,
                                   <<"t", "o", "d", "a", "y">>)))

\* fetchAndFormatTasksForDate from its second await to its end.
afterTasksResponse(rn, response, b, clock, off) ==
    LET got == [rn EXCEPT !.tasksResponse = response]
        tasks == completedOnDateEvents(b, response.list, rn.targetDate)
    IN IF response.kind = "throw" THEN throwError(got, <<response.cause>>)
       ELSE IF response.status # 200
       THEN throwError(got, apiError("Activity", response))
       ELSE IF ~response.isObject \/ ~response.hasList
       THEN throwError(got, invalidStructureError(b))
       ELSE IF Len(tasks) = 0
       THEN noTasksFound(got, clock, off)
       ELSE returnMarkdown(got,
                renderMarkdown(tasks, rn.projects, rn.targetDate, clock, off),
                insertedNotice(Len(tasks), formatDate(rn.targetDate, off)))

(***************************************************************************)
(* The state machine.                                                      *)
(***************************************************************************)
\* As if projectsMap were a field of the plugin, shared by its runs.
settleShared(runs, r, rn) ==
    [q \in Runs |-> IF q = r THEN rn
                    ELSE IF runs[q].pc = "awaitTasks"
                    THEN [runs[q] EXCEPT !.projects = rn.projects]
                    ELSE runs[q]]

\* What a step of run r writes: its own locals (projectsMap, targetMoment,
\* tasksByProject, markdownOutput are consts and lets of the call).
settle(runs, r, rn) == [runs EXCEPT ![r] = rn]

\* The note open in the editor, as its lines, with the selection covering
\* lines from + 1 .. to (a bare cursor when from = to).
openNote ==
    [text |-> <<<<"# ", <<"L", "o", "g">>>>, <<"- ", <<"d", "r", "a", "f", "t">>>>>>,
     from |-> 2, to |-> 2]

\* What the user can select in the open note: nothing (the cursor at the
\* top or at the end) or its last line.
Selections == {<<0, 0>>, <<1, 2>>, <<2, 2>>}

\* editor.replaceSelection(lines): the selected lines give way to lines and
\* the cursor is left after them.
replaceSelection(ed, lines) ==
    [text |-> SubSeq(ed.text, 1, ed.from) \o lines
              \o SubSeq(ed.text, ed.to + 1, Len(ed.text)),
     from |-> ed.from + Len(lines),
     to |-> ed.from + Len(lines)]

\* The command's last statement, when the step from before to after reached
\* it: the returned Markdown replaces the selection.
insertReturned(ed, before, after) ==
    IF Len(after.replaced) > Len(before.replaced)
    THEN replaceSelection(ed, after.replaced[Len(after.replaced)])
    ELSE ed

Init ==
    /\ build \in {"part_000", "main_ts"}
    /\ settings \in [todoistApiToken : {trim(value) : value \in Tokens}]
    /\ now = FirstInstant
    /\ utcOffset \in {-1, 0, 1}
    /\ run = [r \in Runs |-> idleRun]
    /\ editor = openNote

\* The command "Insert completed tasks for day".  The daily-note format is
\* the default 'YYYY-MM-DD' (part_000's setting left as it is; src/main.ts
\* has no other).
fetchAndInsertTasksForView(r, basename) ==
    /\ run[r].pc = "idle"
    /\ LET dated == basename # null /\ isValidDate(basename)
           targetDate == IF dated THEN parseDate(basename, utcOffset) ELSE now
           dateSource == IF dated
                         THEN <<"note filename (", formatDate(targetDate, utcOffset), ")">>
                         ELSE <<"today">>
           started == [run[r] EXCEPT !.entry = "view",
                                     !.tokenAtStart = settings.todoistApiToken,
                                     !.targetDate = targetDate]
       IN run' = [run EXCEPT ![r] =
               IF Falsy(settings.todoistApiToken)
               THEN [started EXCEPT !.pc = "done",
                                    !.notices = <<tokenNotSetNotice>>]
               ELSE beginFetchAndFormat(
                        [started EXCEPT !.notices = <<fetchingNotice(dateSource)>>],
                        settings.todoistApiToken)]
    /\ UNCHANGED <<build, settings, now, utcOffset, editor>>

\* fetchAndFormatTasksForDate called on its own.
fetchAndFormatTasksForDate(r, targetDate) ==
    /\ run[r].pc = "idle"
    /\ run' = [run EXCEPT ![r] =
           beginFetchAndFormat(
               [run[r] EXCEPT !.entry = "format",
                              !.tokenAtStart = settings.todoistApiToken,
                              !.targetDate = targetDate],
               settings.todoistApiToken)]
    /\ UNCHANGED <<build, settings, now, utcOffset, editor>>

\* fetchProjectData called on its own.
fetchProjectData(r) ==
    /\ run[r].pc = "idle"
    /\ run' = [run EXCEPT ![r] =
           beginFetchProjectData(
               [run[r] EXCEPT !.entry = "projects",
                              !.tokenAtStart = settings.todoistApiToken],
               settings.todoistApiToken)]
    /\ UNCHANGED <<build, settings, now, utcOffset, editor>>

\* The project request settles.
ProjectsResponse(r, response) ==
    /\ run[r].pc = "awaitProjects"
    /\ run' = settle(run, r,
           afterProjectsResponse(run[r], response, build,
                                 settings.todoistApiToken, utcOffset))
    /\ editor' = insertReturned(editor, run[r], run'[r])
    /\ UNCHANGED <<build, settings, now, utcOffset>>

\* The completed-task request settles.
TasksResponse(r, response) ==
    /\ run[r].pc = "awaitTasks"
    /\ run' = settle(run, r,
           afterTasksResponse(run[r], response, build, now, utcOffset))
    /\ editor' = insertReturned(editor, run[r], run'[r])
    /\ UNCHANGED <<build, settings, now, utcOffset>>

\* The settings tab's onChange of the token field.
SetToken(value) ==
    /\ trim(value) # settings.todoistApiToken
    /\ settings' = [settings EXCEPT !.todoistApiToken = trim(value)]
    /\ UNCHANGED <<build, now, utcOffset, run, editor>>

\* The user moves the cursor or selects text in the open note.
Select(from, to) ==
    /\ to <= Len(editor.text)
    /\ <<from, to>> # <<editor.from, editor.to>>
    /\ editor' = [editor EXCEPT !.from = from, !.to = to]
    /\ UNCHANGED <<build, settings, now, utcOffset, run>>

\* Time passes.
Tick ==
    /\ now < FirstInstant + MaxTicks
    /\ now' = now + 1
    /\ UNCHANGED <<build, settings, utcOffset, run, editor>>

SoloTaskResponses == TaskResponses({WriteSpec, Untitled, Undated}, MaxItems)

\* One invocation of the command or of one of its methods, start to end.
Next ==
    \/ \E basename \in Basenames : fetchAndInsertTasksForView("r1", basename)
    \/ fetchAndFormatTasksForDate("r1", now)
    \/ fetchProjectData("r1")
    \/ \E response \in ProjectResponses(build) : ProjectsResponse("r1", response)
    \/ \E response \in SoloTaskResponses : TasksResponse("r1", response)
    \/ \E value \in Tokens : SetToken(value)
    \/ \E selection \in Selections : Select(selection[1], selection[2])
    \/ Tick

Spec == Init /\ [][Next]_vars

\* The command triggered again while an earlier run awaits its answers.
NextConcurrent ==
    \/ \E r \in Runs, basename \in Basenames : fetchAndInsertTasksForView(r, basename)
    \/ \E r \in Runs, response \in ConcurrentProjectResponses :
          ProjectsResponse(r, response)
    \/ \E r \in Runs, response \in ConcurrentTaskResponses :
          TasksResponse(r, response)
    \/ \E value \in Tokens : SetToken(value)
    \/ Tick

SpecConcurrent == Init /\ [][NextConcurrent]_vars

(***************************************************************************)
(* The formatter on its own: the command has its project directory and     *)
(* awaits the completed tasks, for directories and task lists that cover   *)
(* known, unknown, unnamed, re-listed and absent projects.                 *)
(***************************************************************************)
project(id, name) == [id |-> id, name |-> name, color |-> "grey"]

FormatDirectories ==
    {<<>>,
     <<Work>>,
     <<project(<<"1">>, <<"Z", "e", "t", "a">>), project(<<"2">>, <<"A", "l", "p", "h", "a">>)>>,
     <<project(<<"1">>, <<"a", "l", "p", "h", "a">>), project(<<"2">>, <<"B", "e", "t", "a">>)>>,
     <<project(<<"1">>, <<>>), project(<<"2">>, <<"W", "o", "r", "k">>)>>,
     <<Work, project(<<"1">>, <<"H", "o", "m", "e">>), Home>>}

task(id, project_id, content) ==
    [id |-> id, project_id |-> project_id, content |-> content,
     completed_at |-> FirstInstant]

FormatTasks ==
    {WriteSpec, Untitled,
     task(<<"c">>, <<"2">>, <<"C", "a", "l", "l">>),
     task(<<"d">>, <<"9">>, <<"P", "a", "y">>),
     task(<<"e">>, <<"8">>, <<>>),
     task(<<"f">>, <<>>, <<"F", "i", "x">>)}

\* The command was run on a note that is no daily note, and the project
\* request answered with directory.
awaitingTasks(directory) ==
    afterProjectsResponse(
        beginFetchAndFormat(
            [idleRun EXCEPT !.entry = "view",
                            !.tokenAtStart = settings.todoistApiToken,
                            !.targetDate = now,
                            !.notices = <<fetchingNotice(<<"today">>)>>],
            settings.todoistApiToken),
        okResponse(TRUE, TRUE, directory, <<>>),
        build, settings.todoistApiToken, utcOffset)

InitFormat ==
    /\ build \in {"part_000", "main_ts"}
    /\ settings = [todoistApiToken |-> <<"t", "o", "k">>]
    /\ now = FirstInstant
    /\ utcOffset \in {-1, 0, 1}
    /\ \E directory \in FormatDirectories :
          run = [r \in Runs |-> IF r = "r1" THEN awaitingTasks(directory) ELSE idleRun]
    /\ editor = openNote

FormatResponses ==
    {okResponse(TRUE, TRUE, l, <<>>) : l \in SeqsUpTo(FormatTasks, MaxFormatItems)}

NextFormat == \E response \in FormatResponses : TasksResponse("r1", response)

SpecFormat == InitFormat /\ [][NextFormat]_vars

(***************************************************************************)
(* Properties.                                                             *)
(***************************************************************************)
\* The requests run rn made to one endpoint.
requestsTo(rn, url) == SelectSeq(rn.requests, LAMBDA q : q.url = url)

\* The list items of a Markdown text.
itemLines(lines) == SelectSeq(lines, LAMBDA l : l[1] = "- [")

\* The records of the answer that the Markdown text shows.
rendered(rn) ==
    SelectSeq(rn.tasksResponse.list,
              LAMBDA t : \E i \in 1..Len(rn.markdownOutput) :
                            /\ rn.markdownOutput[i][1] = "- ["
                            /\ rn.markdownOutput[i][4] = t.id)

\* The service kept to the since/until bounds of the request, if it had any.
withinBounds(rn) ==
    \A q \in {rn.requests[i] : i \in 1..Len(rn.requests)} :
        (q.url = "tasks" /\ build = "part_000") =>
            \A i \in 1..Len(rn.tasksResponse.list) :
                /\ q.since <= rn.tasksResponse.list[i].completed_at
                /\ rn.tasksResponse.list[i].completed_at <= q.until

\* C1: every record that fetchAndFormatTasksForDate renders was completed
\* on the target day of the observer's calendar, whatever the zone and the
\* records (here: even when the service keeps to the bounds it was given).
C1_OnlyTargetDay ==
    \A r \in Runs :
        (run[r].returned /\ withinBounds(run[r])) =>
            \A i \in 1..Len(rendered(run[r])) :
                DayOf(rendered(run[r])[i].completed_at, utcOffset)
                    = DayOf(run[r].targetDate, utcOffset)

\* C2: when the service holds more matching records than the page it
\* answered with, the run fetches the rest or fails; it never ends well
\* with the first page alone.
C2_NoSilentTruncation ==
    \A r \in Runs :
        (run[r].pc = "done" /\ next_cursor(run[r].tasksResponse) # null) =>
            \/ run[r].error # <<>>
            \/ Len(requestsTo(run[r], "tasks")) > 1

\* C3: the mapping fetchProjectData returns holds the projects of every
\* page of the listing.
C3_EveryPage ==
    \A r \in Runs :
        (run[r].projectsResponse.kind = "http" /\ run[r].projectsResponse.status = 200
         /\ run[r].projectsResponse.hasList /\ run[r].error = <<>>
         /\ run[r].pc # "awaitProjects") =>
            \A i \in 1..Len(run[r].projectsResponse.list \o run[r].projectsResponse.rest) :
                (run[r].projectsResponse.list \o run[r].projectsResponse.rest)[i].id
                    \in DOMAIN run[r].projects

\* C4: a run started without a token makes no request, inserts nothing and
\* ends with the missing token reported, from any of the three entries.
C4_NoTokenNoRequest ==
    \A r \in Runs :
        (run[r].entry # "none" /\ Falsy(run[r].tokenAtStart)) =>
            /\ run[r].requests = <<>>
            /\ run[r].replaced = <<>>
            /\ run[r].pc = "done"
            /\ ~run[r].returned
            /\ IF run[r].entry = "view"
               THEN run[r].notices = <<tokenNotSetNotice>> /\ run[r].error = <<>>
               ELSE run[r].error = tokenNotSetError

C4_Witness ==
    /\ run["r1"].entry = "projects"
    /\ Falsy(run["r1"].tokenAtStart)
    /\ run["r1"].pc = "done"
    /\ run["r1"].error = tokenNotSetError

\* The project request failed: no answer, or a status other than 200.
projectFetchFailed(rn) ==
    \/ rn.projectsResponse.kind = "throw"
    \/ rn.projectsResponse.kind = "http" /\ rn.projectsResponse.status # 200

\* The completed-task request failed: no answer, a status other than 200,
\* or an answer without the list.
taskFetchFailed(rn) ==
    \/ rn.tasksResponse.kind = "throw"
    \/ rn.tasksResponse.kind = "http" /\ rn.tasksResponse.status # 200
    \/ rn.tasksResponse.kind = "http"
       /\ (~rn.tasksResponse.isObject \/ ~rn.tasksResponse.hasList)

\* C5: a failed fetch ends the run with its error and no output: nothing
\* is inserted, no task request follows a failed project fetch, and no
\* endpoint is requested twice in a run.
C5_FailureAborts ==
    \A r \in Runs :
        /\ Len(requestsTo(run[r], "projects")) <= 1
        /\ Len(requestsTo(run[r], "tasks")) <= 1
        /\ (projectFetchFailed(run[r]) \/ taskFetchFailed(run[r])) =>
              /\ run[r].pc = "done"
              /\ run[r].error # <<>>
              /\ ~run[r].returned
              /\ run[r].markdownOutput = <<>>
              /\ run[r].replaced = <<>>
        /\ projectFetchFailed(run[r]) => requestsTo(run[r], "tasks") = <<>>

C5_Witness ==
    /\ run["r1"].entry = "view"
    /\ run["r1"].projects # <<>>
    /\ run["r1"].tasksResponse.kind = "http"
    /\ run["r1"].tasksResponse.status = 200
    /\ ~run["r1"].tasksResponse.hasList
    /\ run["r1"].pc = "done"

\* C6: a status other than 200 from the project request reaches the caller
\* as the remote-service error itself (status and body), not wrapped the
\* way a transport failure is.
C6_StatusErrorUnwrapped ==
    \A r \in Runs :
        (run[r].pc = "done" /\ run[r].projectsResponse.kind = "http"
         /\ run[r].projectsResponse.status # 200) =>
            run[r].error = apiError(projectsApi(build), run[r].projectsResponse)

\* The tasks fetchAndFormatTasksForDate has for the target day.
tasksForDay(rn) == completedOnDateEvents(build, rn.tasksResponse.list, rn.targetDate)

\* C9: with no completed task for the target day the call returns the
\* empty string, shows "No tasks completed on <today|date> found" and
\* raises no error and no error notice.
C9_EmptyIsSuccess ==
    \A r \in Runs :
        (run[r].pc = "done" /\ run[r].tasksResponse.kind = "http"
         /\ ~taskFetchFailed(run[r]) /\ tasksForDay(run[r]) = <<>>) =>
            /\ run[r].returned
            /\ run[r].markdownOutput = <<>>
            /\ run[r].error = <<>>
            /\ run[r].notices[Len(run[r].notices)]
                 \in {noTasksNotice(<<"t", "o", "d", "a", "y">>),
                      noTasksNotice(formatDate(run[r].targetDate, utcOffset))}
            /\ \A i \in 1..Len(run[r].notices) : run[r].notices[i][1] # "Error: "

C9_Witness ==
    /\ build = "main_ts"
    /\ run["r1"].pc = "done"
    /\ run["r1"].tasksResponse.kind = "http"
    /\ run["r1"].tasksResponse.list # <<>>
    /\ ~taskFetchFailed(run["r1"])
    /\ tasksForDay(run["r1"]) = <<>>
    /\ run["r1"].notices[Len(run["r1"].notices)]
         = noTasksNotice(formatDate(run["r1"].targetDate, utcOffset))

\* How many entries of sequence q satisfy P.
Count(q, P(_)) == Cardinality({i \in 1..Len(q) : P(q[i])})

\* The heading above line j of a Markdown text: the nearest "### " line
\* before it (no heading: the empty text).
headingAbove(lines, j) ==
    IF \E i \in 1..j : lines[i][1] = "### "
    THEN lines[CHOOSE i \in 1..j :
                 /\ lines[i][1] = "### "
                 /\ \A k \in (i + 1)..j : lines[k][1] # "### "][2]
    ELSE <<>>

\* The text a task's list item must have.
expectedItem(t) ==
    <<"- [", IF t.content = <<>> THEN <<"T", "a", "s", "k", " ", "I", "D", " ">> \o t.id
             ELSE t.content,
      "](https://todoist.com/showTask?id=", t.id, ")">>

\* The heading a task belongs under: its project's name, "No Project"
\* without a project, "Unknown Project (ID: <id>)" for one not listed.
expectedHeading(t, projects) ==
    IF t.project_id = null \/ t.project_id = <<>>
    THEN <<"N", "o", " ", "P", "r", "o", "j", "e", "c", "t">>
    ELSE IF t.project_id \in DOMAIN projects /\ projects[t.project_id] # <<>>
    THEN projects[t.project_id]
    ELSE <<"U", "n", "k", "n", "o", "w", "n", " ", "P", "r", "o", "j", "e", "c", "t", " ", "(", "I", "D", ":", " ">>
         \o t.project_id \o <<")">>

\* The project keys of a task list: one per group.
keysOf(tasks) ==
    {IF tasks[i].project_id = <<>> THEN null ELSE tasks[i].project_id : i \in 1..Len(tasks)}

\* C7: grouping is a partition.  Every task of a non-empty list is one list
\* item under its own group's heading, as often as it is in the list; there
\* is one heading per group; the "Inserted <n> tasks" notice counts the items.
C7_Partition ==
    \A r \in Runs :
        (run[r].returned /\ run[r].tasksResponse.kind = "http"
         /\ tasksForDay(run[r]) # <<>>) =>
            LET T == tasksForDay(run[r])
                out == run[r].markdownOutput
                under(j) == <<headingAbove(out, j), out[j]>>
                belongs(i) == <<expectedHeading(T[i], run[r].projects), expectedItem(T[i])>>
            IN /\ Len(itemLines(out)) = Len(T)
               /\ \A i \in 1..Len(T) :
                     Cardinality({j \in 1..Len(out) : out[j][1] = "- [" /\ under(j) = belongs(i)})
                       = Cardinality({k \in 1..Len(T) : belongs(k) = belongs(i)})
               /\ Count(out, LAMBDA l : l[1] = "### ") = Cardinality(keysOf(T))
               /\ run[r].notices[Len(run[r].notices)]
                    = insertedNotice(Len(itemLines(out)), formatDate(run[r].targetDate, utcOffset))

C7_Witness ==
    /\ run["r1"].returned
    /\ Len(tasksForDay(run["r1"])) = MaxFormatItems
    /\ Cardinality(keysOf(tasksForDay(run["r1"]))) = 2
    /\ \E i \in 1..Len(tasksForDay(run["r1"])) :
          tasksForDay(run["r1"])[i].project_id = <<>>
    /\ Len(itemLines(run["r1"].markdownOutput)) = MaxFormatItems

\* The headings of a Markdown text, in order.
headings(lines) ==
    LET hs == SelectSeq(lines, LAMBDA l : l[1] = "### ")
    IN [i \in 1..Len(hs) |-> hs[i][2]]

\* C8: the group without a project comes last, and the other groups,
\* "Unknown Project (ID: <id>)" groups among them, come in the order of
\* their headings compared without regard to case.
C8_GroupOrder ==
    \A r \in Runs :
        (run[r].returned /\ run[r].tasksResponse.kind = "http"
         /\ tasksForDay(run[r]) # <<>>) =>
            LET ids == sortedProjectIds(tasksForDay(run[r]), run[r].projects)
                hs == headings(run[r].markdownOutput)
            IN /\ Len(hs) = Len(ids)
               /\ \A i \in 1..Len(ids) : ids[i] = null => i = Len(ids)
               /\ \A i \in 1..Len(ids) : \A j \in (i + 1)..Len(ids) :
                     ids[j] # null => CaseInsensitiveCompare(hs[i], hs[j]) <= 0

\* The Markdown a run produces on its own from the answers it was given,
\* its target date and the clock at the time of the second answer.
aloneOutput(rn, clock) ==
    LET directory == projectsMap(IF rn.projectsResponse.isObject /\ rn.projectsResponse.hasList
                                 THEN rn.projectsResponse.list ELSE <<>>)
    IN IF tasksForDay(rn) = <<>> THEN <<>>
       ELSE renderMarkdown(tasksForDay(rn), directory, rn.targetDate, clock, utcOffset)

\* A step of one run leaves the other run as it was, and a run that ends
\* well ends with the output it would produce alone.
independentStep ==
    \A r \in Runs :
        /\ run'[r] # run[r] => \A q \in Runs \ {r} : run'[q] = run[q]
        /\ (run[r].pc = "awaitTasks" /\ run'[r].pc = "done" /\ run'[r].returned) =>
              /\ run'[r].markdownOutput = aloneOutput(run'[r], now)
              /\ run'[r].replaced = <<aloneOutput(run'[r], now)>>

\* No run is held back by the other: whatever the other run is doing, an
\* idle run can start and an awaited answer can be taken.
neverBlocked ==
    \A r \in Runs :
        /\ run[r].pc = "idle" => ENABLED fetchAndInsertTasksForView(r, null)
        /\ run[r].pc = "awaitProjects" => ENABLED ProjectsResponse(r, serverError)
        /\ run[r].pc = "awaitTasks" => ENABLED TasksResponse(r, transportFailure)

\* C10: two runs in flight at once do not interfere.  Each run's output is
\* the one it would produce alone from its own target date and answers, a
\* step of one run changes nothing of the other, and neither run waits for
\* the other.
C10_NoCrossTalk == [][independentStep]_vars /\ []neverBlocked

C10_Witness ==
    /\ run["r1"].pc = "awaitTasks"
    /\ run["r2"].pc = "awaitTasks"
    /\ run["r1"].projects # <<>>
    /\ run["r2"].projects = <<>>
    /\ run["r1"].targetDate # run["r2"].targetDate

\* Run rn went through the formatter and returned its Markdown.
formatted(rn) == rn.pc = "done" /\ rn.returned /\ rn.tasksResponse.kind = "http"

\* Two runs had the same project directory, the same tasks for the day and
\* the same target date.
sameTriple(a, b) ==
    /\ a.projects = b.projects
    /\ tasksForDay(a) = tasksForDay(b)
    /\ formatDate(a.targetDate, utcOffset) = formatDate(b.targetDate, utcOffset)

headingOfDay(rn) ==
    rn.markdownOutput[1]
      \in {<<"## Tasks Completed ", <<"T", "o", "d", "a", "y">>>>,
           <<"## Tasks Completed ", formatDate(rn.targetDate, utcOffset)>>}

C12_EmptyDayLeavesNote ==
    [][\A r \in Runs :
          (/\ run[r].pc = "awaitTasks"
           /\ run'[r].pc = "done"
           /\ run'[r].returned
           /\ tasksForDay(run'[r]) = <<>>)
          => editor'.text = editor.text]_vars

====
